---- MODULE Spec2Model ----
(***************************************************************************)
(* A model of the conv-flow evaluation engine (src/lib/flow.ts and its     *)
(* helpers normalizeResult, normalizeError and partitionArray).            *)
(*                                                                         *)
(* A client builds a pipeline with Flow.lift, then and to, calls exec on   *)
(* it once, and the promises returned by the asynchronous steps settle in  *)
(* any order.  JavaScript runs every callback to completion, so one action *)
(* of the model is one turn of the event loop: the synchronous code of the *)
(* call or settlement together with every promise reaction it triggers.    *)
(***************************************************************************)
EXTENDS Integers, Sequences, FiniteSets, TLC

VARIABLES
    flow,     \* the Flow the client holds (the pipeline built so far)
    tasks,    \* one record per call of a behaviour function _f(s), in call order
    calls,    \* the log of step invocations, in invocation order
    overtaken,\* whether a step's promise has settled before one returned earlier
    size,     \* the calls of lift, then and to the client made to build flow,
              \* plus the step functions it passed to them
    mapped,   \* the log of error mapper invocations (a set: their order is not kept)
    kept,     \* the flow the client called then or to on last, which it still holds
    given,    \* the argument lists the client gave to then and to, call by call
    direct    \* a call of normalizeResult the client makes itself: input and result

vars == <<flow, tasks, calls, overtaken, size, mapped, kept, given, direct>>

\* The size of the largest pipeline the client builds: the number of calls of
\* lift, then and to that build it plus the number of step functions it holds.
MaxSize == 6

(***************************************************************************)
(* JavaScript values.  Every value is a record whose tag names its shape;  *)
(* for Left and Right the tag is fp-ts's _tag.                             *)
(***************************************************************************)
Num(n) == [tag |-> "Num", v |-> n]
Arr(xs) == [tag |-> "Array", items |-> xs]
Error(msg) == [tag |-> "Error", msg |-> msg]
Fn(id) == [tag |-> "Function", id |-> id]

left(e) == [tag |-> "Left", left |-> e]
right(a) == [tag |-> "Right", right |-> a]
isLeft(ma) == ma.tag = "Left"
isRight(ma) == ma.tag = "Right"

\* !!e : of the values of the model only the number 0 is falsy
Truthy(e) == ~(e.tag = "Num" /\ e.v = 0)

\* An isEither that knows Right only.  C19 tells it from isEither.
isEither_RightOnly(e) == Truthy(e) /\ isRight(e)

isEither(e) == Truthy(e) /\ (isRight(e) \/ isLeft(e))

liftEither(le) == IF isEither(le) THEN le ELSE right(le)

\* A Layer is kept as a TLA+ sequence of Left/Right records.
normalizeResult(r) ==
    IF r.tag = "Array"
    THEN [k \in 1..Len(r.items) |-> liftEither(r.items[k])]
    ELSE <<liftEither(r)>>

(***************************************************************************)
(* Error mappers.  Flow._errIdentity returns its argument; the other       *)
(* mappers are the client's and wrap the error, as ferr of the test suite  *)
(* does.                                                                   *)
(***************************************************************************)
errIdentity == "errIdentity"

ApplyMapError(mapError, e) ==
    IF mapError = errIdentity THEN e
    ELSE [tag |-> "Mapped", by |-> mapError, err |-> e]

\* A mapper of the client that throws instead of returning, and what it
\* throws.
ThrowingMapper == "fthrow"

MapperThrows(mapError) == mapError = ThrowingMapper

MapperError == Error("mapper")

\* normalizeError without the call of mapError: the error itself is the
\* termination.  C2 tells it from normalizeError.
normalizeError_Unmapped(mapError, e) == <<left(e)>>

normalizeError(mapError, e) == <<left(ApplyMapError(mapError, e))>>

\* A partitionArray that puts each element in front of the ones before it
\* (unshift for push).  C18 tells it from partitionArray.
partitionArray_Unshift(arr, predicate) ==
    LET yes == SelectSeq(arr, LAMBDA t : predicate[t])
        no == SelectSeq(arr, LAMBDA t : ~predicate[t])
    IN  <<[k \in 1..Len(yes) |-> yes[Len(yes) + 1 - k]],
          [k \in 1..Len(no) |-> no[Len(no) + 1 - k]]>>

\* predicate is a TLA+ function on the elements of arr
partitionArray(arr, predicate) ==
    <<SelectSeq(arr, LAMBDA t : predicate[t]),
      SelectSeq(arr, LAMBDA t : ~predicate[t])>>

\* A flatten that concatenates from the last array to the first.  C3 tells
\* it from flatten.
RECURSIVE flatten_Reversed(_)
flatten_Reversed(arrs) ==
    IF arrs = <<>> THEN <<>> ELSE flatten_Reversed(Tail(arrs)) \o Head(arrs)

RECURSIVE flatten(_)
flatten(arrs) ==
    IF arrs = <<>> THEN <<>> ELSE Head(arrs) \o flatten(Tail(arrs))

(***************************************************************************)
(* The client's step functions.  A step is a JavaScript function; what it  *)
(* does with its input is fixed by its id, so a step is deterministic.     *)
(* Steps of the first three ids take one value, the others take the array  *)
(* of values that `to` hands over.                                         *)
(***************************************************************************)
Returns(v) == [mode |-> "return", val |-> v]     \* returns v synchronously
Throws(e) == [mode |-> "throw", val |-> e]       \* throws e synchronously
Resolves(v) == [mode |-> "resolve", val |-> v]   \* returns a promise fulfilled with v
Rejects(e) == [mode |-> "reject", val |-> e]     \* returns a promise rejected with e

Halted == [tag |-> "Termination", msg |-> "halted"]

\* The three ways in which a checking step stops a computation, chosen by n.
Check(n) ==
    CASE n % 3 = 0 -> Throws(Error("oops"))
      [] n % 3 = 1 -> Rejects(Error("late"))
      [] OTHER     -> Returns(left(Halted))

StepOutcome(step, s) ==
    CASE step.id = "inc"    -> Returns(Num(s.v + 1))
      [] step.id = "fan"    -> Resolves(Arr(<<s, Num(s.v + 1)>>))
      [] step.id = "chk"    -> Check(s.v)
      [] step.id = "len"    -> Returns(Num(Len(s.items)))
      [] step.id = "all"    -> Resolves(s)
      [] step.id = "chkAll" -> Check(Len(s.items))
      [] step.id = "ret"    -> Returns(step.val)
      [] step.id = "split"  -> Returns(Arr(<<left(Halted), Num(s.v + 1)>>))

\* The step () => r, which returns r whatever its input.
Returning(r) == [tag |-> "Function", id |-> "ret", val |-> r]

\* Object.assign(step, {_f: 0, _mapError: 0}): the step function with two
\* properties named like the fields of a Flow.
Decorated(step) ==
    [tag |-> "Function", id |-> step.id, _f |-> Num(0), _mapError |-> Num(0)]

ScalarSteps == {Fn("inc"), Fn("fan"), Fn("chk")}
ArraySteps == {Fn("len"), Fn("all"), Fn("chkAll")}
Inputs == {Num(0), Num(1)}
ClientMappers == {errIdentity, "ferr"}

(***************************************************************************)
(* Flow: the behaviour function _f and the error mapper _mapError.  _f is  *)
(* a closure, kept as the record of what it captured.                      *)
(***************************************************************************)
NoFlow == [tag |-> "undefined"]

\* The client has not called normalizeResult itself.
NoCall == [tag |-> "undefined"]

Flow(f, mapError) == [tag |-> "Flow", _f |-> f, _mapError |-> mapError]

lift(stepFunctions, mapError) ==
    LET nStepFunctions ==
            IF stepFunctions.tag = "Array" THEN stepFunctions.items
            ELSE <<stepFunctions>>
    IN  Flow([kind |-> "lift", steps |-> nStepFunctions, mapError |-> mapError],
             mapError)

isFlow(maybeFlow) ==
    "_f" \in DOMAIN maybeFlow /\ "_mapError" \in DOMAIN maybeFlow

\* new Flow(f) without a second argument: _mapError is Flow._errIdentity
chain(this, flows) ==
    Flow([kind |-> "chain", this |-> this, flows |-> flows], errIdentity)

converge(this, flows) ==
    Flow([kind |-> "converge", this |-> this, flows |-> flows], errIdentity)

\* A then that lifts again, with the mapper of `this`, the steps of an
\* argument that is a Flow already.  C11 tells it from then.
then_Relifts(this, flowsOrSteps) ==
    chain(this, [k \in 1..Len(flowsOrSteps) |->
                    IF isFlow(flowsOrSteps[k])
                    THEN lift(Arr(flowsOrSteps[k]._f.steps), this._mapError)
                    ELSE lift(flowsOrSteps[k], this._mapError)])

\* A then that lifts a step function with the default mapper.  C10 tells it
\* from then.
then_DefaultMapper(this, flowsOrSteps) ==
    chain(this, [k \in 1..Len(flowsOrSteps) |->
                    IF isFlow(flowsOrSteps[k]) THEN flowsOrSteps[k]
                    ELSE lift(flowsOrSteps[k], errIdentity)])

then(this, flowsOrSteps) ==
    chain(this, [k \in 1..Len(flowsOrSteps) |->
                    IF isFlow(flowsOrSteps[k]) THEN flowsOrSteps[k]
                    ELSE lift(flowsOrSteps[k], this._mapError)])

to(this, flowsOrSteps) ==
    converge(this, [k \in 1..Len(flowsOrSteps) |->
                       IF isFlow(flowsOrSteps[k]) THEN flowsOrSteps[k]
                       ELSE lift(flowsOrSteps[k], this._mapError)])

(***************************************************************************)
(* Execution.  A task is one call _f(s) and the promise it returned.       *)
(*   parent, role, slot : who called: the client ("exec", parent 0), a     *)
(*       chain/converge closure running its upstream flow ("this"), or a   *)
(*       chain/converge closure starting its rightRuns[slot] ("run")       *)
(*   promises : what Promise.all waits for: promiseResults of a lift,      *)
(*       rightRuns of a chain or converge                                  *)
(*   awaiting : "this" while a chain/converge waits for this._f(s)         *)
(***************************************************************************)
Pending == [state |-> "pending", value |-> <<>>]
Fulfilled(v) == [state |-> "fulfilled", value |-> v]
Rejected(e) == [state |-> "rejected", value |-> e]

NewTask(f, s, parent, role, slot, promises, awaiting) ==
    [f |-> f, s |-> s, parent |-> parent, role |-> role, slot |-> slot,
     promises |-> promises, awaiting |-> awaiting, lefts |-> <<>>,
     state |-> "pending", value |-> <<>>]

\* An entry of the log of mapper invocations: mapError(e), called for step
\* `step` of lift task `task`, or by the .catch of a chain or converge task
\* (step 0).
MapCall(mapError, e, task, step) ==
    [mapper |-> mapError, e |-> e, task |-> task, step |-> step]

\* promiseResults[i] without the .catch of line 57: a rejection of the
\* step's promise stays a rejection.  C1 tells it from SettledPromise.
SettledPromise_Uncaught(step, s, mapError) ==
    LET o == StepOutcome(step, s)
    IN  CASE o.mode = "return"  -> Fulfilled(normalizeResult(o.val))
          [] o.mode = "throw"   ->
                Fulfilled(normalizeResult(Arr(normalizeError(mapError, o.val))))
          [] o.mode = "resolve" -> Fulfilled(normalizeResult(o.val))
          [] o.mode = "reject"  -> Rejected(o.val)

\* promiseResults[i] once the step's own promise, if it returned one, has
\* settled: a fulfilled value is normalized, a rejection is mapped.
\* A mapper that throws inside .catch leaves the promise rejected with what
\* it threw.
SettledPromise(step, s, mapError) ==
    LET o == StepOutcome(step, s)
    IN  CASE o.mode = "return"  -> Fulfilled(normalizeResult(o.val))
          [] o.mode = "throw"   ->
                Fulfilled(normalizeResult(Arr(normalizeError(mapError, o.val))))
          [] o.mode = "resolve" -> Fulfilled(normalizeResult(o.val))
          [] o.mode = "reject"  ->
                IF MapperThrows(mapError) THEN Rejected(MapperError)
                ELSE Fulfilled(normalizeError(mapError, o.val))

\* promiseResults[i] at the end of the turn that invoked the step
LiftPromise(step, s, mapError) ==
    IF StepOutcome(step, s).mode \in {"return", "throw"}
    THEN SettledPromise(step, s, mapError)
    ELSE Pending

\* A closure of lift without the try/catch around step(s): the first step
\* that throws ends the loop and the steps after it are not invoked.  C4
\* tells it from LiftBehaviour.
LiftBehaviour_StopsAtThrow(st, f, s, parent, role, slot) ==
    LET id == Len(st.tasks) + 1
        thrown == {i \in DOMAIN f.steps : StepOutcome(f.steps[i], s).mode = "throw"}
        n == IF thrown = {} THEN Len(f.steps)
             ELSE CHOOSE i \in thrown : \A j \in thrown : i <= j
    IN  [tasks |-> Append(st.tasks,
                      NewTask(f, s, parent, role, slot,
                              [i \in 1..n |-> LiftPromise(f.steps[i], s, f.mapError)],
                              "all")),
         calls |-> st.calls \o
                      [i \in 1..n |-> [step |-> f.steps[i], s |-> s, task |-> id]],
         mapped |-> st.mapped \cup
                      {MapCall(f.mapError, StepOutcome(f.steps[i], s).val, id, i) :
                          i \in {j \in 1..n : StepOutcome(f.steps[j], s).mode = "throw"}}]

\* The closure of lift called on s: every step is invoked, in order.  Where
\* a step throws and the mapper called in the catch block throws too, the
\* closure itself throws: the steps after that one are not invoked and no
\* promise is returned (state "threw").
LiftBehaviour(st, f, s, parent, role, slot) ==
    LET id == Len(st.tasks) + 1
        fatal == {i \in DOMAIN f.steps : /\ StepOutcome(f.steps[i], s).mode = "throw"
                                          /\ MapperThrows(f.mapError)}
        n == IF fatal = {} THEN Len(f.steps)
             ELSE CHOOSE i \in fatal : \A j \in fatal : i <= j
        task == IF fatal = {}
                THEN NewTask(f, s, parent, role, slot,
                             [i \in 1..n |-> LiftPromise(f.steps[i], s, f.mapError)],
                             "all")
                ELSE [NewTask(f, s, parent, role, slot, <<>>, "all")
                         EXCEPT !.state = "threw", !.value = MapperError]
    IN  [tasks |-> Append(st.tasks, task),
         calls |-> st.calls \o
                      [i \in 1..n |-> [step |-> f.steps[i], s |-> s, task |-> id]],
         mapped |-> st.mapped \cup
                      {MapCall(f.mapError, StepOutcome(f.steps[i], s).val, id, i) :
                          i \in {j \in 1..n : StepOutcome(f.steps[j], s).mode = "throw"}}]

\* The call _f(s): a lift closure invokes its steps; a chain or converge
\* closure calls this._f(s) and registers its continuation, and throws if
\* this._f(s) throws.
RECURSIVE Behaviour(_, _, _, _, _, _)
Behaviour(st, f, s, parent, role, slot) ==
    IF f.kind = "lift"
    THEN LiftBehaviour(st, f, s, parent, role, slot)
    ELSE LET id == Len(st.tasks) + 1
             st1 == [st EXCEPT !.tasks =
                        Append(@, NewTask(f, s, parent, role, slot, <<>>, "this"))]
             st2 == Behaviour(st1, f.this._f, s, id, "this", 0)
         IN  IF st2.tasks[id + 1].state = "threw"
             THEN [st2 EXCEPT !.tasks[id].state = "threw",
                              !.tasks[id].value = st2.tasks[id + 1].value]
             ELSE st2

\* An exec that keeps the layer of an earlier call by the client with the
\* same input and answers with it, invoking nothing.  C13 tells it from exec.
exec_Cached(st, this, s, parent, role, slot) ==
    LET done == {t \in DOMAIN st.tasks : /\ st.tasks[t].role = "exec"
                                         /\ st.tasks[t].f = this._f
                                         /\ st.tasks[t].s = s
                                         /\ st.tasks[t].state = "fulfilled"}
    IN  IF role = "exec" /\ done # {}
        THEN [st EXCEPT !.tasks =
                 Append(@, [NewTask(this._f, s, parent, role, slot, <<>>, "all")
                               EXCEPT !.state = "fulfilled",
                                      !.value = st.tasks[CHOOSE t \in done : TRUE].value])]
        ELSE Behaviour(st, this._f, s, parent, role, slot)

exec(st, this, s, parent, role, slot) ==
    Behaviour(st, this._f, s, parent, role, slot)

\* rightRuns grouped by flow first and by value second.  C6 tells it from
\* ChainRuns.
ChainRuns_FlowMajor(flows, rightValues) ==
    LET K == Len(rightValues)
    IN  [n \in 1..(K * Len(flows)) |->
            [flow |-> flows[((n - 1) \div K) + 1],
             s |-> rightValues[((n - 1) % K) + 1]]]

\* rightRuns in which a flow given twice runs once for each value.  C7 tells
\* it from ChainRuns.
ChainRuns_Deduplicated(flows, rightValues) ==
    LET keep == {j \in DOMAIN flows : \A i \in 1..(j - 1) : flows[i] # flows[j]}
        M == Cardinality(keep)
        uniq == [m \in 1..M |->
                    flows[CHOOSE j \in keep : Cardinality({i \in keep : i < j}) = m - 1]]
    IN  [n \in 1..(Len(rightValues) * M) |->
            [flow |-> uniq[((n - 1) % M) + 1],
             s |-> rightValues[((n - 1) \div M) + 1]]]

\* The arguments of the calls flow.exec(..) that make rightRuns.
ChainRuns(flows, rightValues) ==
    LET M == Len(flows)
    IN  [n \in 1..(Len(rightValues) * M) |->
            [flow |-> flows[((n - 1) % M) + 1],
             s |-> rightValues[((n - 1) \div M) + 1]]]

\* rightRuns of a converge that skips its flows when no element is live.  C8
\* tells it from ConvergeRuns.
ConvergeRuns_SkipsEmpty(flows, rightValues) ==
    IF rightValues = <<>> THEN <<>>
    ELSE [j \in 1..Len(flows) |-> [flow |-> flows[j], s |-> Arr(rightValues)]]

ConvergeRuns(flows, rightValues) ==
    [j \in 1..Len(flows) |-> [flow |-> flows[j], s |-> Arr(rightValues)]]

\* rightRuns made one after the other: a run is started once the steps of
\* the run before it have settled.  C15 tells it from StartRuns.
RECURSIVE StartRuns_Sequential(_, _, _, _)
StartRuns_Sequential(st, p, runs, i) ==
    IF i > Len(runs) THEN st
    ELSE LET id == Len(st.tasks) + 1
             st1 == exec(st, runs[i].flow, runs[i].s, p, "run", i)
         IN  IF \E k \in DOMAIN st1.tasks[id].promises :
                    st1.tasks[id].promises[k].state = "pending"
             THEN st1
             ELSE StartRuns_Sequential(st1, p, runs, i + 1)

\* exec is a method of class Flow: a function has no property of that name.
HasExec(v) == v.tag = "Flow"

\* What the call flow.exec(..) throws when flow.exec is undefined.
TypeError == Error("flow.exec is not a function")

\* The calls flow.exec(..) that make rightRuns.  Where flow has no exec, or
\* exec itself throws, the call throws: the async arrow of chain returns a rejected promise and the
\* flows after it are run; in converge the throw leaves _.flatMap, the flows
\* after it are not run and the callback's promise is rejected.
RECURSIVE StartRuns(_, _, _, _)
StartRuns(st, p, runs, i) ==
    IF i > Len(runs) THEN st
    ELSE LET id == Len(st.tasks) + 1
             called == IF HasExec(runs[i].flow)
                       THEN exec(st, runs[i].flow, runs[i].s, p, "run", i)
                       ELSE st
             thrown == IF ~HasExec(runs[i].flow) THEN <<TypeError>>
                       ELSE IF called.tasks[id].state = "threw"
                       THEN <<called.tasks[id].value>>
                       ELSE <<>>
             st1 == [called EXCEPT !.tasks[p].promises[i] = Rejected(thrown[1])]
         IN  IF thrown = <<>> THEN StartRuns(called, p, runs, i + 1)
             ELSE IF st.tasks[p].f.kind = "chain" THEN StartRuns(st1, p, runs, i + 1)
             ELSE st1

\* A callback that, given no flows, hands the whole upstream layer on.  C23
\* tells it from Continuation.
Continuation_PassesThrough(st, p, results) ==
    LET f == st.tasks[p].f
        part == partitionArray(results,
                               [t \in {results[k] : k \in DOMAIN results} |-> isLeft(t)])
        lefts == IF f.flows = <<>> THEN results ELSE part[1]
        rights == part[2]
        rightValues == [k \in 1..Len(rights) |-> rights[k].right]
        runs == IF f.kind = "chain" THEN ChainRuns(f.flows, rightValues)
                ELSE ConvergeRuns(f.flows, rightValues)
        st1 == [st EXCEPT !.tasks[p].awaiting = "all",
                          !.tasks[p].lefts = lefts,
                          !.tasks[p].promises = [i \in 1..Len(runs) |-> Pending]]
    IN  StartRuns(st1, p, runs, 1)

\* The callback of this._f(s).then(..) in task p, up to the await.
Continuation(st, p, results) ==
    LET f == st.tasks[p].f
        part == partitionArray(results,
                               [t \in {results[k] : k \in DOMAIN results} |-> isLeft(t)])
        lefts == part[1]
        rights == part[2]
        rightValues == [k \in 1..Len(rights) |-> rights[k].right]
        runs == IF f.kind = "chain" THEN ChainRuns(f.flows, rightValues)
                ELSE ConvergeRuns(f.flows, rightValues)
        st1 == [st EXCEPT !.tasks[p].awaiting = "all",
                          !.tasks[p].lefts = lefts,
                          !.tasks[p].promises = [i \in 1..Len(runs) |-> Pending]]
    IN  StartRuns(st1, p, runs, 1)

\* A Promise.all that is settled as soon as one of its promises is
\* fulfilled, with what is there by then.  C25 tells it from Ready.
Ready_AnyFulfilled(st, t) ==
    /\ st.tasks[t].state = "pending"
    /\ st.tasks[t].awaiting = "all"
    /\ \/ \A i \in DOMAIN st.tasks[t].promises :
              st.tasks[t].promises[i].state = "fulfilled"
       \/ \E i \in DOMAIN st.tasks[t].promises :
              st.tasks[t].promises[i].state \in {"fulfilled", "rejected"}

\* A Promise.all that gives up waiting once a promise has settled to a
\* layer with an Err element.  C16 tells it from Ready.
Ready_FailFast(st, t) ==
    /\ st.tasks[t].state = "pending"
    /\ st.tasks[t].awaiting = "all"
    /\ \/ \A i \in DOMAIN st.tasks[t].promises :
              st.tasks[t].promises[i].state = "fulfilled"
       \/ \E i \in DOMAIN st.tasks[t].promises :
              st.tasks[t].promises[i].state = "rejected"
       \/ \E i \in DOMAIN st.tasks[t].promises :
              /\ st.tasks[t].promises[i].state = "fulfilled"
              /\ \E k \in DOMAIN st.tasks[t].promises[i].value :
                    isLeft(st.tasks[t].promises[i].value[k])

\* Promise.all(promises) has settled in task t and its reaction has not run.
Ready(st, t) ==
    /\ st.tasks[t].state = "pending"
    /\ st.tasks[t].awaiting = "all"
    /\ \/ \A i \in DOMAIN st.tasks[t].promises :
              st.tasks[t].promises[i].state = "fulfilled"
       \/ \E i \in DOMAIN st.tasks[t].promises :
              st.tasks[t].promises[i].state = "rejected"

\* An outcome without the lefts of the upstream layer.  C5 tells it from
\* Outcome.
Outcome_DropsLefts(task) ==
    LET ps == task.promises
        bad == {i \in DOMAIN ps : ps[i].state = "rejected"}
    IN  IF bad # {}
        THEN Rejected(ps[CHOOSE i \in bad : \A j \in bad : i <= j].value)
        ELSE Fulfilled(flatten([i \in DOMAIN ps |-> ps[i].value]))

\* An outcome with the lefts of the upstream layer after the results of the
\* first run.  C26 tells it from Outcome.
Outcome_LeftsAfterFirstRun(task) ==
    LET ps == task.promises
        bad == {i \in DOMAIN ps : ps[i].state = "rejected"}
    IN  IF bad # {}
        THEN Rejected(ps[CHOOSE i \in bad : \A j \in bad : i <= j].value)
        ELSE IF ps = <<>> THEN Fulfilled(task.lefts)
        ELSE Fulfilled(ps[1].value \o task.lefts \o
                       flatten([i \in 1..(Len(ps) - 1) |-> ps[i + 1].value]))

\* An outcome with the lefts of the upstream layer after the results of the
\* runs.  C9 tells it from Outcome.
Outcome_LeftsLast(task) ==
    LET ps == task.promises
        bad == {i \in DOMAIN ps : ps[i].state = "rejected"}
    IN  IF bad # {}
        THEN Rejected(ps[CHOOSE i \in bad : \A j \in bad : i <= j].value)
        ELSE Fulfilled(flatten([i \in DOMAIN ps |-> ps[i].value]) \o task.lefts)

\* What the promise of task t settles to: _.flatten of the partial layers
\* of a lift, lefts.concat(...rightResults) of a chain or converge.
Outcome(task) ==
    LET ps == task.promises
        bad == {i \in DOMAIN ps : ps[i].state = "rejected"}
    IN  IF bad # {}
        THEN Rejected(ps[CHOOSE i \in bad : \A j \in bad : i <= j].value)
        ELSE Fulfilled(task.lefts \o flatten([i \in DOMAIN ps |-> ps[i].value]))

\* A .catch that converts the rejection with the default mapper.  C22 tells
\* it from RunPromise.
RunPromise_DefaultMapper(parent, outcome) ==
    IF outcome.state = "fulfilled" THEN outcome
    ELSE Fulfilled(normalizeError(errIdentity, outcome.value))

\* flow.exec(..).catch(normalizeError(this._mapError)) in the task of `this`
RunPromise(parent, outcome) ==
    IF outcome.state = "fulfilled" THEN outcome
    ELSE IF MapperThrows(parent.f.this._mapError) THEN Rejected(MapperError)
    ELSE Fulfilled(normalizeError(parent.f.this._mapError, outcome.value))

\* A Deliver for a flow that keeps one promise for all the calls of exec in
\* flight: when a call settles, the other unsettled calls on the same flow
\* settle with it.  C17 tells it from Deliver.
Deliver_Shared(st, t) ==
    LET task == st.tasks[t]
        o == Outcome(task)
        st1 == [st EXCEPT !.tasks[t].state = o.state, !.tasks[t].value = o.value]
    IN  CASE task.role = "exec" ->
                [st1 EXCEPT !.tasks =
                    [u \in DOMAIN @ |->
                        IF /\ @[u].role = "exec"
                           /\ @[u].f = task.f
                           /\ @[u].state = "pending"
                        THEN [@[u] EXCEPT !.state = o.state, !.value = o.value]
                        ELSE @[u]]]
          [] task.role = "run" ->
                [st1 EXCEPT !.tasks[task.parent].promises[task.slot] =
                                RunPromise(st.tasks[task.parent], o),
                            !.mapped = IF o.state = "fulfilled" THEN @
                                       ELSE @ \cup {MapCall(
                                                st.tasks[task.parent].f.this._mapError,
                                                o.value, task.parent, 0)}]
          [] task.role = "this" ->
                IF o.state = "fulfilled"
                THEN Continuation(st1, task.parent, o.value)
                ELSE [st1 EXCEPT !.tasks[task.parent].state = "rejected",
                                 !.tasks[task.parent].value = o.value]

\* The promise of task t settles and its reaction in the caller runs.
Deliver(st, t) ==
    LET task == st.tasks[t]
        o == Outcome(task)
        st1 == [st EXCEPT !.tasks[t].state = o.state, !.tasks[t].value = o.value]
    IN  CASE task.role = "exec" -> st1
          [] task.role = "run" ->
                [st1 EXCEPT !.tasks[task.parent].promises[task.slot] =
                                RunPromise(st.tasks[task.parent], o),
                            !.mapped = IF o.state = "fulfilled" THEN @
                                       ELSE @ \cup {MapCall(
                                                st.tasks[task.parent].f.this._mapError,
                                                o.value, task.parent, 0)}]
          [] task.role = "this" ->
                IF o.state = "fulfilled"
                THEN Continuation(st1, task.parent, o.value)
                ELSE [st1 EXCEPT !.tasks[task.parent].state = "rejected",
                                 !.tasks[task.parent].value = o.value]

\* A turn that runs one promise reaction and leaves the others.  C24 tells
\* it from Propagate.
Propagate_OneReaction(st) ==
    LET ready == {t \in DOMAIN st.tasks : Ready(st, t)}
    IN  IF ready = {} THEN st
        ELSE Deliver(st, CHOOSE t \in ready : \A u \in ready : t <= u)

\* Run the promise reactions until none is left: the rest of the turn.
RECURSIVE Propagate(_)
Propagate(st) ==
    LET ready == {t \in DOMAIN st.tasks : Ready(st, t)}
    IN  IF ready = {} THEN st
        ELSE Propagate(Deliver(st, CHOOSE t \in ready : \A u \in ready : t <= u))

(***************************************************************************)
(* The client.                                                             *)
(***************************************************************************)
\* The non-empty sequences of at most n elements of S.
RECURSIVE SeqsUpTo(_, _)
SeqsUpTo(S, n) ==
    IF n <= 0 THEN {}
    ELSE {<<x>> : x \in S} \cup
         {<<x>> \o xs : x \in S, xs \in SeqsUpTo(S, n - 1)}

\* What lift accepts: one step function or an array of them.
LiftArgs(steps, n) ==
    IF n <= 0 THEN {} ELSE steps \cup {Arr(fs) : fs \in SeqsUpTo(steps, n)}

\* What then and to accept: step functions and flows lifted with a mapper
\* of their own.
OwnMapper == "gerr"

FlowsOrSteps(steps, n) ==
    IF n <= 0 THEN {}
    ELSE steps \cup {lift(a, OwnMapper) : a \in LiftArgs(steps, n - 1)}

\* What an argument adds to size: itself if it is a step function, the
\* call of lift that made it and the steps given to that call if it is a flow.
ArgSize(a) == IF a.tag = "Flow" THEN 1 + Len(a._f.steps) ELSE 1

RECURSIVE ArgsSize(_)
ArgsSize(args) ==
    IF args = <<>> THEN 0 ELSE ArgSize(Head(args)) + ArgsSize(Tail(args))

\* The argument lists of then and to of size at most n.
RECURSIVE ArgLists(_, _)
ArgLists(steps, n) ==
    {<<>>} \cup
    UNION {{<<a>> \o rest : rest \in ArgLists(steps, n - ArgSize(a))} :
              a \in FlowsOrSteps(steps, n)}

Init ==
    /\ flow = NoFlow
    /\ tasks = <<>>
    /\ calls = <<>>
    /\ overtaken = FALSE
    /\ size = 0
    /\ mapped = {}
    /\ kept = NoFlow
    /\ given = <<>>
    /\ direct = NoCall

\* A lift that invokes its step functions when it is called, before any
\* exec.  C12 tells it from LiftAct.
LiftAct_Eager ==
    /\ flow = NoFlow
    /\ \E a \in LiftArgs(ScalarSteps, MaxSize - 1), m \in ClientMappers :
          /\ flow' = lift(a, m)
          /\ size' = 1 + Len(flow'._f.steps)
          /\ calls' = [i \in 1..Len(flow'._f.steps) |->
                          [step |-> flow'._f.steps[i], s |-> Num(0), task |-> 0]]
    /\ UNCHANGED <<tasks, overtaken, mapped, kept, given, direct>>

LiftAct ==
    /\ flow = NoFlow
    /\ \E a \in LiftArgs(ScalarSteps, MaxSize - 1), m \in ClientMappers :
          /\ flow' = lift(a, m)
          /\ size' = 1 + Len(flow'._f.steps)
    /\ UNCHANGED <<tasks, calls, overtaken, mapped, kept, given, direct>>

\* A then that changes the flow it is called on into the new flow and
\* returns it.  C14 tells it from ThenAct.
ThenAct_InPlace ==
    /\ flow # NoFlow
    /\ tasks = <<>>
    /\ size < MaxSize
    /\ \E args \in ArgLists(ScalarSteps, MaxSize - size - 1) :
          /\ flow' = then(flow, args)
          /\ size' = size + 1 + ArgsSize(args)
          /\ given' = Append(given, args)
    /\ kept' = flow'
    /\ UNCHANGED <<tasks, calls, overtaken, mapped, direct>>

ThenAct ==
    /\ flow # NoFlow
    /\ tasks = <<>>
    /\ size < MaxSize
    /\ \E args \in ArgLists(ScalarSteps, MaxSize - size - 1) :
          /\ flow' = then(flow, args)
          /\ size' = size + 1 + ArgsSize(args)
          /\ given' = Append(given, args)
    /\ kept' = flow
    /\ UNCHANGED <<tasks, calls, overtaken, mapped, direct>>

ToAct ==
    /\ flow # NoFlow
    /\ tasks = <<>>
    /\ size < MaxSize
    /\ \E args \in ArgLists(ArraySteps, MaxSize - size - 1) :
          /\ flow' = to(flow, args)
          /\ size' = size + 1 + ArgsSize(args)
          /\ given' = Append(given, args)
    /\ kept' = flow
    /\ UNCHANGED <<tasks, calls, overtaken, mapped, direct>>

ExecAct ==
    /\ flow # NoFlow
    /\ tasks = <<>>
    /\ \E s \in Inputs :
          LET st == Propagate(exec([tasks |-> <<>>, calls |-> <<>>, mapped |-> {}],
                                   flow, s, 0, "exec", 0))
          IN  /\ tasks' = st.tasks
              /\ calls' = st.calls
              /\ mapped' = st.mapped
    /\ UNCHANGED <<flow, overtaken, size, kept, given, direct>>

\* The promise the step returned is rejected: .catch calls mapError.
Rejecting(step, s) == StepOutcome(step, s).mode = "reject"

\* The promise that step i of lift task t returned settles.
SettleAct ==
    /\ \E t \in DOMAIN tasks :
          /\ tasks[t].f.kind = "lift"
          /\ \E i \in DOMAIN tasks[t].promises :
                /\ tasks[t].promises[i].state = "pending"
                /\ LET st == Propagate(
                          [tasks |-> [tasks EXCEPT ![t].promises[i] =
                                         SettledPromise(tasks[t].f.steps[i], tasks[t].s,
                                                        tasks[t].f.mapError)],
                           calls |-> calls,
                           mapped |-> IF Rejecting(tasks[t].f.steps[i], tasks[t].s)
                                      THEN mapped \cup
                                           {MapCall(tasks[t].f.mapError,
                                                    StepOutcome(tasks[t].f.steps[i],
                                                                tasks[t].s).val, t, i)}
                                      ELSE mapped])
                   IN  /\ tasks' = st.tasks
                       /\ calls' = st.calls
                       /\ mapped' = st.mapped
                       /\ overtaken' = (overtaken \/ \E u \in 1..t :
                              \E j \in DOMAIN tasks[u].promises :
                                 /\ tasks[u].f.kind = "lift"
                                 /\ tasks[u].promises[j].state = "pending"
                                 /\ u < t \/ j < i)
    /\ UNCHANGED <<flow, size, kept, given, direct>>

Next == LiftAct \/ ThenAct \/ ToAct \/ ExecAct \/ SettleAct

Spec == Init /\ [][Next]_vars

(***************************************************************************)
(* A client that shares a flow: it builds a pipeline of size at most       *)
(* MaxShared, keeps the flow it called then or to on last, and calls exec  *)
(* at most MaxExecs times, on either flow, whether or not an earlier call  *)
(* is still in flight.                                                     *)
(***************************************************************************)
MaxShared == 4
MaxExecs == 2

SharedLiftAct == LiftAct /\ size' <= MaxShared

SharedThenAct == ThenAct /\ size' <= MaxShared

SharedToAct == ToAct /\ size' <= MaxShared

ExecCalls == {t \in DOMAIN tasks : tasks[t].role = "exec"}

ExecHeldAct ==
    /\ Cardinality(ExecCalls) < MaxExecs
    /\ \E this \in {flow, kept} \ {NoFlow}, s \in Inputs :
          LET st == Propagate(exec([tasks |-> tasks, calls |-> calls, mapped |-> mapped],
                                   this, s, 0, "exec", 0))
          IN  /\ tasks' = st.tasks
              /\ calls' = st.calls
              /\ mapped' = st.mapped
    /\ UNCHANGED <<flow, overtaken, size, kept, given, direct>>

SharedNext ==
    SharedLiftAct \/ SharedThenAct \/ SharedToAct \/ ExecHeldAct \/ SettleAct

SharedSpec == Init /\ [][SharedNext]_vars

(***************************************************************************)
(* The client of Spec, and steps whose promises all settle in the end.     *)
(***************************************************************************)
\* A promise that a step returned is unsettled: the guard of SettleAct, whose
\* other conjuncts assign, so this is when SettleAct is enabled.
Busy ==
    \E t \in DOMAIN tasks :
        /\ tasks[t].f.kind = "lift"
        /\ \E i \in DOMAIN tasks[t].promises : tasks[t].promises[i].state = "pending"

\* Weak fairness of SettleAct, with its enabling condition written out: if
\* from some time on a promise is always unsettled, promises keep settling.
SettleFairly == <>[]Busy => []<><<SettleAct>>_vars

LiveSpec == Spec /\ SettleFairly

(***************************************************************************)
(* A client some of whose step functions carry properties named _f and     *)
(* _mapError.  It builds a pipeline of size at most MaxShared and executes *)
(* it once.                                                                *)
(***************************************************************************)
DecoratedThenAct ==
    /\ flow # NoFlow
    /\ tasks = <<>>
    /\ size < MaxShared
    /\ \E args \in ArgLists(ScalarSteps \cup {Decorated(f) : f \in ScalarSteps},
                             MaxShared - size - 1) :
          /\ flow' = then(flow, args)
          /\ size' = size + 1 + ArgsSize(args)
          /\ given' = Append(given, args)
    /\ kept' = flow
    /\ UNCHANGED <<tasks, calls, overtaken, mapped, direct>>

DecoratedToAct ==
    /\ flow # NoFlow
    /\ tasks = <<>>
    /\ size < MaxShared
    /\ \E args \in ArgLists(ArraySteps \cup {Decorated(f) : f \in ArraySteps},
                             MaxShared - size - 1) :
          /\ flow' = to(flow, args)
          /\ size' = size + 1 + ArgsSize(args)
          /\ given' = Append(given, args)
    /\ kept' = flow
    /\ UNCHANGED <<tasks, calls, overtaken, mapped, direct>>

DecoratedNext ==
    SharedLiftAct \/ DecoratedThenAct \/ DecoratedToAct \/ ExecAct \/ SettleAct

DecoratedSpec == Init /\ [][DecoratedNext]_vars

(***************************************************************************)
(* A client that builds a pipeline of one lifted step function and at most *)
(* MaxStages stages, each a then or a to with one step function, and       *)
(* executes it once.  Its step functions include one that gives an Err and *)
(* a live element for every input.                                         *)
(***************************************************************************)
MaxStages == 3

StageSteps == {Fn("split"), Fn("chk"), Fn("inc")}

StageArraySteps == {Fn("all"), Fn("chkAll")}

StagesLiftAct ==
    /\ flow = NoFlow
    /\ \E a \in StageSteps, m \in ClientMappers :
          /\ flow' = lift(a, m)
          /\ size' = 2
    /\ UNCHANGED <<tasks, calls, overtaken, mapped, kept, given, direct>>

StagesThenAct ==
    /\ flow # NoFlow
    /\ tasks = <<>>
    /\ Len(given) < MaxStages
    /\ \E a \in StageSteps :
          /\ flow' = then(flow, <<a>>)
          /\ size' = size + 2
          /\ given' = Append(given, <<a>>)
    /\ kept' = flow
    /\ UNCHANGED <<tasks, calls, overtaken, mapped, direct>>

StagesToAct ==
    /\ flow # NoFlow
    /\ tasks = <<>>
    /\ Len(given) < MaxStages
    /\ \E a \in StageArraySteps :
          /\ flow' = to(flow, <<a>>)
          /\ size' = size + 2
          /\ given' = Append(given, <<a>>)
    /\ kept' = flow
    /\ UNCHANGED <<tasks, calls, overtaken, mapped, direct>>

StagesNext ==
    StagesLiftAct \/ StagesThenAct \/ StagesToAct \/ ExecAct \/ SettleAct

StagesSpec == Init /\ [][StagesNext]_vars

(***************************************************************************)
(* A client that gives then and to flows lifted with a mapper that throws. *)
(* Its pipeline is one lifted step function and at most MaxDepth stages,   *)
(* with at most MaxFns step functions in all; it executes it once.         *)
(***************************************************************************)
MaxFns == 3
MaxDepth == 2

\* Argument lists of at most n step functions and flows lifted from one
\* step function with the throwing mapper.
ThrowingArgs(steps, n) ==
    {<<>>} \cup SeqsUpTo(steps \cup {lift(a, ThrowingMapper) : a \in steps}, n)

ThrowingLiftAct ==
    /\ flow = NoFlow
    /\ \E a \in ScalarSteps, m \in ClientMappers :
          /\ flow' = lift(a, m)
          /\ size' = 1
    /\ UNCHANGED <<tasks, calls, overtaken, mapped, kept, given, direct>>

ThrowingThenAct ==
    /\ flow # NoFlow
    /\ tasks = <<>>
    /\ Len(given) < MaxDepth
    /\ \E args \in ThrowingArgs(ScalarSteps, MaxFns - size) :
          /\ flow' = then(flow, args)
          /\ size' = size + Len(args)
          /\ given' = Append(given, args)
    /\ kept' = flow
    /\ UNCHANGED <<tasks, calls, overtaken, mapped, direct>>

ThrowingToAct ==
    /\ flow # NoFlow
    /\ tasks = <<>>
    /\ Len(given) < MaxDepth
    /\ \E args \in ThrowingArgs(ArraySteps, MaxFns - size) :
          /\ flow' = to(flow, args)
          /\ size' = size + Len(args)
          /\ given' = Append(given, args)
    /\ kept' = flow
    /\ UNCHANGED <<tasks, calls, overtaken, mapped, direct>>

ThrowingNext ==
    ThrowingLiftAct \/ ThrowingThenAct \/ ThrowingToAct \/ ExecAct \/ SettleAct

ThrowingSpec == Init /\ [][ThrowingNext]_vars

(***************************************************************************)
(* A client that calls normalizeResult itself on a Layerable r, and lifts  *)
(* and executes the step that returns r.  A Layerable is a value, a Left   *)
(* or Right, or an array of at most MaxLen of them.                        *)
(***************************************************************************)
MaxLen == 3

Elements ==
    {Num(0), Num(1), Arr(<<Num(1)>>),
     left(Halted), left(Num(0)), right(Num(0)), right(Arr(<<>>))}

RECURSIVE ArraysUpTo(_, _)
ArraysUpTo(S, n) ==
    IF n = 0 THEN {<<>>}
    ELSE ArraysUpTo(S, n - 1) \cup
         {Append(xs, x) : xs \in {ys \in ArraysUpTo(S, n - 1) : Len(ys) = n - 1},
                          x \in S}

Layerables == Elements \cup {Arr(xs) : xs \in ArraysUpTo(Elements, MaxLen)}

NormalizeInit ==
    /\ flow = NoFlow
    /\ tasks = <<>>
    /\ calls = <<>>
    /\ overtaken = FALSE
    /\ size = 0
    /\ mapped = {}
    /\ kept = NoFlow
    /\ given = <<>>
    /\ direct \in {[r |-> r, called |-> FALSE, layer |-> <<>>] : r \in Layerables}

NormalizeAct ==
    /\ ~direct.called
    /\ direct' = [direct EXCEPT !.called = TRUE,
                                !.layer = normalizeResult(direct.r)]
    /\ UNCHANGED <<flow, tasks, calls, overtaken, size, mapped, kept, given>>

LiftReturningAct ==
    /\ flow = NoFlow
    /\ \E m \in ClientMappers :
          /\ flow' = lift(Returning(direct.r), m)
          /\ size' = 2
    /\ UNCHANGED <<tasks, calls, overtaken, mapped, kept, given, direct>>

NormalizeNext == NormalizeAct \/ LiftReturningAct \/ ExecAct

NormalizeSpec == NormalizeInit /\ [][NormalizeNext]_vars

(***************************************************************************)
(* What the properties below speak about.                                  *)
(***************************************************************************)
Executed == tasks # <<>>

\* The call exec(s) the client made.
Root == tasks[1]

LiftTasks == {t \in DOMAIN tasks : tasks[t].f.kind = "lift"}

\* No promise returned by a step is unsettled.
Quiet ==
    \A t \in LiftTasks : \A i \in DOMAIN tasks[t].promises :
        tasks[t].promises[i].state # "pending"

Failing(step, s) == StepOutcome(step, s).mode \in {"throw", "reject"}

\* m(e), written out for the mappers of the model
Mapped(m, e) == IF m = errIdentity THEN e ELSE [tag |-> "Mapped", by |-> m, err |-> e]

RECURSIVE Concat(_)
Concat(layers) ==
    IF Len(layers) = 0 THEN <<>>
    ELSE Concat(SubSeq(layers, 1, Len(layers) - 1)) \o layers[Len(layers)]

RECURSIVE SumLen(_)
SumLen(layers) ==
    IF Len(layers) = 0 THEN 0
    ELSE SumLen(SubSeq(layers, 1, Len(layers) - 1)) + Len(layers[Len(layers)])

Count(layer, x) == Cardinality({i \in DOMAIN layer : layer[i] = x})

\* The layer one step gives when it is lifted alone with mapper m.
Alone(step, s, m) ==
    LET o == StepOutcome(step, s)
    IN  CASE o.mode \in {"throw", "reject"} -> <<left(Mapped(m, o.val))>>
          [] o.val.tag = "Array" ->
                [k \in 1..Len(o.val.items) |->
                    IF o.val.items[k].tag \in {"Left", "Right"}
                    THEN o.val.items[k] ELSE right(o.val.items[k])]
          [] o.val.tag \in {"Left", "Right"} -> <<o.val>>
          [] OTHER -> <<right(o.val)>>

\* The invocations of steps made by task t, in order.
CallsOf(t) == SelectSeq(calls, LAMBDA c : c.task = t)

(***************************************************************************)
(* C1.  Whatever the steps of a pipeline do (return, throw, reject), the   *)
(* promise returned by exec is never rejected; once every step's promise   *)
(* has settled it is fulfilled, and every failed step invocation is one    *)
(* Err element of the resolved layer, carrying the mapped error.           *)
(***************************************************************************)
FailedCalls == {n \in DOMAIN calls : Failing(calls[n].step, calls[n].s)}

TerminationOf(n) ==
    Mapped(tasks[calls[n].task].f.mapError,
           StepOutcome(calls[n].step, calls[n].s).val)

C1_ExecNeverRejects ==
    Executed =>
        /\ Root.state # "rejected"
        /\ Quiet =>
              /\ Root.state = "fulfilled"
              /\ \A n \in FailedCalls :
                    Count(Root.value, left(TerminationOf(n))) =
                        Cardinality({k \in FailedCalls :
                                        TerminationOf(k) = TerminationOf(n)})

\* a pipeline with a stage in which one step threw and another rejected
C1_Witness ==
    /\ Executed
    /\ Root.f.kind # "lift"
    /\ Root.state = "fulfilled"
    /\ \E n \in FailedCalls : StepOutcome(calls[n].step, calls[n].s).mode = "throw"
    /\ \E n \in FailedCalls : StepOutcome(calls[n].step, calls[n].s).mode = "reject"

(***************************************************************************)
(* C2.  A flow lifted from one step that fails with e, by throwing or by   *)
(* a rejected promise, resolves to exactly [Err(m(e))]; with the default   *)
(* mapper that is [Err(e)], e itself.                                      *)
(***************************************************************************)
C2_FailureIsMapped ==
    \A t \in LiftTasks :
        LET f == tasks[t].f
            e == StepOutcome(f.steps[1], tasks[t].s).val
        IN  (/\ Len(f.steps) = 1
             /\ Failing(f.steps[1], tasks[t].s)
             /\ tasks[t].promises[1].state # "pending")
            => /\ tasks[t].state = "fulfilled"
               /\ tasks[t].value =
                     <<left(IF f.mapError = errIdentity THEN e
                            ELSE [tag |-> "Mapped", by |-> f.mapError, err |-> e])>>

\* lift(chk, ferr).exec(1): the step's promise is rejected
C2_Witness ==
    /\ Executed
    /\ Root.f.kind = "lift"
    /\ Len(Root.f.steps) = 1
    /\ Root.f.mapError = "ferr"
    /\ StepOutcome(Root.f.steps[1], Root.s).mode = "reject"
    /\ Root.state = "fulfilled"

(***************************************************************************)
(* C3.  A flow lifted from the steps f1..fn resolves to the concatenation, *)
(* in the order of the steps, of the layers the steps give alone, in       *)
(* whatever order their promises settle; its length is the sum of theirs.  *)
(***************************************************************************)
PartialLayers(t) ==
    [i \in 1..Len(tasks[t].f.steps) |->
        Alone(tasks[t].f.steps[i], tasks[t].s, tasks[t].f.mapError)]

C3_LiftConcatenatesInStepOrder ==
    \A t \in LiftTasks :
        tasks[t].state = "fulfilled" =>
            /\ tasks[t].value = Concat(PartialLayers(t))
            /\ Len(tasks[t].value) = SumLen(PartialLayers(t))

\* two steps, the promise of the second settled before that of the first,
\* and the layer is longer than the list of steps
C3_Witness ==
    /\ Executed
    /\ Root.f.kind = "lift"
    /\ Len(Root.f.steps) >= 2
    /\ overtaken
    /\ Root.state = "fulfilled"
    /\ Len(Root.value) > Len(Root.f.steps)
    /\ Root.value[1] # Root.value[Len(Root.value)]

(***************************************************************************)
(* C4.  Every step of a lifted flow is invoked exactly once, with the      *)
(* input of exec, whether or not other steps fail, and a step that does    *)
(* not fail contributes the elements it gives alone; lift([failing,        *)
(* succeeding]) gives one Err and one Ok holding succeeding(s).            *)
(***************************************************************************)
Offset(t, i) == SumLen(SubSeq(PartialLayers(t), 1, i - 1))

C4_StepsAreIndependent ==
    \A t \in LiftTasks :
        LET f == tasks[t].f
            s == tasks[t].s
        IN  /\ CallsOf(t) = [i \in 1..Len(f.steps) |->
                                [step |-> f.steps[i], s |-> s, task |-> t]]
            /\ tasks[t].state = "fulfilled" =>
                  /\ \A i \in 1..Len(f.steps) :
                        ~Failing(f.steps[i], s) =>
                            SubSeq(tasks[t].value, Offset(t, i) + 1,
                                   Offset(t, i) + Len(Alone(f.steps[i], s, f.mapError)))
                                = Alone(f.steps[i], s, f.mapError)
                  /\ (/\ Len(f.steps) = 2
                      /\ Failing(f.steps[1], s)
                      /\ f.steps[2] = Fn("inc"))
                     => /\ Len(tasks[t].value) = 2
                        /\ isLeft(tasks[t].value[1])
                        /\ tasks[t].value[2] = right(Num(s.v + 1))

\* lift([chk, inc]).exec(0): chk throws, inc returns 1
C4_Witness ==
    /\ Executed
    /\ Root.f.kind = "lift"
    /\ Root.f.steps = <<Fn("chk"), Fn("inc")>>
    /\ Root.s = Num(0)
    /\ Root.state = "fulfilled"
    /\ Root.value = <<left(Error("oops")), right(Num(1))>>

(***************************************************************************)
(* Stages.  A stage task is a call of the closure made by then (chain) or  *)
(* to (converge); its upstream task is the call this._f(s) it made, its    *)
(* runs are the calls flow.exec(..) of its continuation.                   *)
(***************************************************************************)
StageTasks == {p \in DOMAIN tasks : tasks[p].f.kind \in {"chain", "converge"}}
ChainTasks == {p \in DOMAIN tasks : tasks[p].f.kind = "chain"}
ConvergeTasks == {p \in DOMAIN tasks : tasks[p].f.kind = "converge"}

Upstream(p) ==
    CHOOSE u \in DOMAIN tasks : tasks[u].parent = p /\ tasks[u].role = "this"

Runs(p) == {c \in DOMAIN tasks : tasks[c].parent = p /\ tasks[c].role = "run"}

\* The layer of the upstream flow of stage p, once it is there.
Fed(p) == tasks[Upstream(p)].state = "fulfilled"
UpLayer(p) == tasks[Upstream(p)].value

Errs(layer) == SelectSeq(layer, LAMBDA x : x.tag = "Left")
Oks(layer) == SelectSeq(layer, LAMBDA x : x.tag = "Right")
Payloads(layer) == [k \in 1..Len(Oks(layer)) |-> Oks(layer)[k].right]

\* The layer a flow gives on input s: that of a lift from its steps, that
\* of then and to from the layer of the flow before, as sections 4.2 to 4.4
\* of the specification define it.
RECURSIVE Denote(_, _)
Denote(fl, s) ==
    LET f == fl._f
    IN  IF f.kind = "lift"
        THEN Concat([i \in 1..Len(f.steps) |-> Alone(f.steps[i], s, f.mapError)])
        ELSE LET L == Denote(f.this, s)
                 vs == Payloads(L)
                 M == Len(f.flows)
             IN  IF f.kind = "chain"
                 THEN Errs(L) \o
                      Concat([k \in 1..Len(vs) |->
                                 Concat([j \in 1..M |-> Denote(f.flows[j], vs[k])])])
                 ELSE Errs(L) \o
                      Concat([j \in 1..M |-> Denote(f.flows[j], Arr(vs))])

IsPrefix(xs, ys) == Len(xs) <= Len(ys) /\ SubSeq(ys, 1, Len(xs)) = xs

\* The stages that come after task u in its pipeline.
RECURSIVE Later(_)
Later(u) ==
    IF tasks[u].role = "this"
    THEN {tasks[u].parent} \cup Later(tasks[u].parent)
    ELSE {}

(***************************************************************************)
(* C5.  An Err element of the layer a stage receives is handed to no       *)
(* downstream flow, neither alone nor inside the converged collection,     *)
(* and it is in the layer of every later stage with the same termination.  *)
(***************************************************************************)
Holds(s, x) ==
    \/ s = x
    \/ s = x.left
    \/ s.tag = "Array" /\ \E k \in DOMAIN s.items : s.items[k] = x \/ s.items[k] = x.left

C5_ErrIsInert ==
    \A p \in StageTasks :
        Fed(p) =>
            /\ \A c \in Runs(p) : \A i \in DOMAIN UpLayer(p) :
                  isLeft(UpLayer(p)[i]) => ~Holds(tasks[c].s, UpLayer(p)[i])
            /\ \A c \in Runs(p) : \A n \in DOMAIN calls :
                  calls[n].task = c => calls[n].s = tasks[c].s
            /\ \A a \in {p} \cup Later(p) :
                  tasks[a].state = "fulfilled" =>
                      IsPrefix(Errs(UpLayer(p)), tasks[a].value)

\* two stages; the first receives an Err and a live element and runs its
\* downstream flow; the Err is in the layer of the second
C5_Witness ==
    /\ Executed
    /\ Root.state = "fulfilled"
    /\ \E p \in StageTasks :
          /\ tasks[p].role = "this"
          /\ tasks[p].parent = 1
          /\ Runs(p) # {}
          /\ Errs(UpLayer(p)) # <<>>
          /\ Oks(UpLayer(p)) # <<>>
          /\ IsPrefix(Errs(UpLayer(p)), Root.value)

(***************************************************************************)
(* C6.  The layer of then(d1..dM) is the Err elements of the upstream      *)
(* layer, in order, followed by the layers of the downstream flows, by     *)
(* live value first and by flow second, in whatever order the invocations  *)
(* settle.  With downstream steps that each return one value it holds K*M  *)
(* Ok elements, and then(g) maps the live values in order.                 *)
(***************************************************************************)
OnlyInc(flows) ==
    \A j \in DOMAIN flows : flows[j]._f.kind = "lift" /\ flows[j]._f.steps = <<Fn("inc")>>

C6_ThenLayer ==
    \A p \in ChainTasks :
        tasks[p].state = "fulfilled" =>
            LET L == UpLayer(p)
                vs == Payloads(L)
                flows == tasks[p].f.flows
                M == Len(flows)
            IN  /\ tasks[p].value =
                      Errs(L) \o
                      Concat([k \in 1..Len(vs) |->
                                 Concat([j \in 1..M |-> Denote(flows[j], vs[k])])])
                /\ OnlyInc(flows) =>
                      /\ Len(Oks(tasks[p].value)) = Len(vs) * M
                      /\ M = 1 => Oks(tasks[p].value) =
                                     [k \in 1..Len(vs) |-> right(Num(vs[k].v + 1))]

\* lift([fan, chk]).then(d1, d2).exec(0): two live values and an Err, four
\* invocations, one of which settled before an earlier one
C6_Witness ==
    /\ Executed
    /\ Root.f.kind = "chain"
    /\ Root.f.this._f.kind = "lift"
    /\ Root.f.this._f.steps = <<Fn("fan"), Fn("chk")>>
    /\ Root.s = Num(0)
    /\ Len(Root.f.flows) = 2
    /\ Root.f.flows[1] # Root.f.flows[2]
    /\ overtaken
    /\ Root.state = "fulfilled"

(***************************************************************************)
(* C7.  then(d1..dM) on a layer with K live elements makes K*M downstream  *)
(* invocations: each flow once for each live value, with its payload, and  *)
(* each of its steps once; none when K = 0; of two equal flows each one.   *)
(***************************************************************************)
C7_ThenInvocations ==
    \A p \in ChainTasks :
        Fed(p) =>
            LET vs == Payloads(UpLayer(p))
                flows == tasks[p].f.flows
                K == Len(vs)
                M == Len(flows)
            IN  /\ Cardinality(Runs(p)) = K * M
                /\ \A k \in 1..K, j \in 1..M :
                      Cardinality({c \in Runs(p) : /\ tasks[c].f = flows[j]._f
                                                  /\ tasks[c].s = vs[k]})
                        = Cardinality({kj \in (1..K) \X (1..M) :
                                          /\ flows[kj[2]] = flows[j]
                                          /\ vs[kj[1]] = vs[k]})
                /\ \A c \in Runs(p) :
                      tasks[c].f.kind = "lift" =>
                          CallsOf(c) = [i \in 1..Len(tasks[c].f.steps) |->
                                           [step |-> tasks[c].f.steps[i],
                                            s |-> tasks[c].s, task |-> c]]

\* two live values and the same step given twice: four invocations
C7_Witness ==
    /\ Executed
    /\ Root.f.kind = "chain"
    /\ Len(Root.f.flows) = 2
    /\ Root.f.flows[1] = Root.f.flows[2]
    /\ Fed(1)
    /\ Len(Payloads(UpLayer(1))) = 2
    /\ Cardinality(Runs(1)) = 4
    /\ Root.state = "fulfilled"

(***************************************************************************)
(* C8.  to(d1..dM) invokes each downstream flow once, and its input is the *)
(* collection of the payloads of the Ok elements of the upstream layer, in *)
(* order, whatever their number; it is the empty collection when there is  *)
(* none.                                                                   *)
(***************************************************************************)
C8_ToInvocations ==
    \A p \in ConvergeTasks :
        Fed(p) =>
            LET flows == tasks[p].f.flows
                M == Len(flows)
            IN  /\ Cardinality(Runs(p)) = M
                /\ \A j \in 1..M :
                      Cardinality({c \in Runs(p) : tasks[c].f = flows[j]._f})
                        = Cardinality({i \in 1..M : flows[i] = flows[j]})
                /\ \A c \in Runs(p) :
                      /\ tasks[c].s = Arr(Payloads(UpLayer(p)))
                      /\ tasks[c].f.kind = "lift" =>
                            CallsOf(c) = [i \in 1..Len(tasks[c].f.steps) |->
                                             [step |-> tasks[c].f.steps[i],
                                              s |-> Arr(Payloads(UpLayer(p))),
                                              task |-> c]]

\* no live element: the one downstream step is invoked with the empty array
C8_Witness ==
    /\ Executed
    /\ Root.f.kind = "converge"
    /\ Len(Root.f.flows) = 1
    /\ Fed(1)
    /\ UpLayer(1) # <<>>
    /\ Oks(UpLayer(1)) = <<>>
    /\ \E c \in Runs(1) : tasks[c].s = Arr(<<>>) /\ Len(CallsOf(c)) = 1
    /\ Root.state = "fulfilled"

(***************************************************************************)
(* C9.  The layer of to(d1..dM) is the Err elements of the upstream layer  *)
(* (as many, in order, unchanged) followed by the layers of d1..dM in      *)
(* that order, in whatever order they settle.  A downstream flow that is   *)
(* one failing step contributes one Err, at its position, and the layers   *)
(* of the other flows are what they are without it.                        *)
(***************************************************************************)
C9_ToLayer ==
    \A p \in ConvergeTasks :
        tasks[p].state = "fulfilled" =>
            LET L == UpLayer(p)
                in == Arr(Payloads(L))
                flows == tasks[p].f.flows
                M == Len(flows)
                parts == [j \in 1..M |-> Denote(flows[j], in)]
            IN  /\ tasks[p].value = Errs(L) \o Concat(parts)
                /\ Len(Errs(tasks[p].value)) >= Len(Errs(L))
                /\ \A j \in 1..M :
                      (/\ flows[j]._f.kind = "lift"
                       /\ Len(flows[j]._f.steps) = 1
                       /\ Failing(flows[j]._f.steps[1], in))
                      => LET at == Len(Errs(L)) + SumLen(SubSeq(parts, 1, j - 1)) + 1
                         IN  /\ isLeft(tasks[p].value[at])
                             /\ Len(tasks[p].value) =
                                   Len(Errs(L)) + SumLen(SubSeq(parts, 1, j - 1))
                                       + 1 + SumLen(SubSeq(parts, j + 1, M))

\* an Err and live elements upstream; a failing step between two others;
\* a later promise settled first
C9_Witness ==
    /\ Executed
    /\ Root.f.kind = "converge"
    /\ Len(Root.f.flows) = 3
    /\ Root.f.flows[2]._f.steps = <<Fn("chkAll")>>
    /\ Root.f.flows[1]._f.steps = <<Fn("all")>>
    /\ Root.f.flows[3]._f.steps = <<Fn("all")>>
    /\ Fed(1)
    /\ Failing(Fn("chkAll"), Arr(Payloads(UpLayer(1))))
    /\ overtaken
    /\ Root.state = "fulfilled"

(***************************************************************************)
(* C10.  A step function given to then or to of a flow made by lift(f, m)  *)
(* is lifted with m: when it fails with e on its input, the element it     *)
(* contributes is Err(m(e)).                                               *)
(***************************************************************************)
\* A run of a downstream flow that then or to lifted from a step function:
\* the flows the client lifts itself carry OwnMapper.
LiftedByStage(c) ==
    /\ tasks[c].role = "run"
    /\ tasks[c].f.kind = "lift"
    /\ tasks[c].f.mapError # OwnMapper

C10_StepInheritsMapper ==
    \A p \in StageTasks : \A c \in Runs(p) :
        (/\ tasks[p].f.this._f.kind = "lift"
         /\ LiftedByStage(c)
         /\ Failing(tasks[c].f.steps[1], tasks[c].s)
         /\ tasks[c].state = "fulfilled")
        => LET m == tasks[p].f.this._f.mapError
               e == StepOutcome(tasks[c].f.steps[1], tasks[c].s).val
           IN  /\ tasks[c].value = <<left(Mapped(m, e))>>
               /\ tasks[p].state = "fulfilled" =>
                     Count(tasks[p].value, left(Mapped(m, e))) >= 1

\* lift(f, ferr).then(chk): chk fails and the element is Err(ferr(e))
C10_Witness ==
    /\ Executed
    /\ Root.f.kind = "chain"
    /\ Root.f.this._f.kind = "lift"
    /\ Root.f.this._f.mapError = "ferr"
    /\ Root.state = "fulfilled"
    /\ \E c \in Runs(1) :
          /\ LiftedByStage(c)
          /\ tasks[c].f.steps = <<Fn("chk")>>
          /\ tasks[c].value =
                <<left([tag |-> "Mapped", by |-> "ferr",
                        err |-> StepOutcome(Fn("chk"), tasks[c].s).val])>>
          /\ Count(Root.value, tasks[c].value[1]) >= 1

(***************************************************************************)
(* C11.  An argument of then or to that is a Flow lifted with a mapper m2  *)
(* of its own runs as it is: when a step of it fails with e, m2 is called  *)
(* with e, no other mapper is called for that run, the run's layer holds   *)
(* Err(m2(e)) and so does the layer of the stage.                          *)
(***************************************************************************)
\* The number of calls of then and to that made the closure f.
RECURSIVE Depth(_)
Depth(f) == IF f.kind = "lift" THEN 0 ELSE 1 + Depth(f.this._f)

\* The argument of then or to that run c of stage p executes.
FlowIndex(p, c) ==
    IF tasks[p].f.kind = "chain"
    THEN ((tasks[c].slot - 1) % Len(tasks[p].f.flows)) + 1
    ELSE tasks[c].slot

Given(p, c) == given[Depth(tasks[p].f)][FlowIndex(p, c)]

\* Stage p is a call of a closure of the client's pipeline (not of a flow
\* nested in it).
OfPipeline(p) == Depth(tasks[p].f) <= Len(given)

C11_FlowKeepsItsMapper ==
    \A p \in StageTasks : \A c \in Runs(p) :
        (OfPipeline(p) /\ Given(p, c).tag = "Flow") =>
            LET m2 == Given(p, c)._mapError
            IN  /\ tasks[c].f = Given(p, c)._f
                /\ \A x \in mapped : x.task = c => x.mapper = m2
                /\ \A i \in DOMAIN tasks[c].f.steps :
                      LET e == StepOutcome(tasks[c].f.steps[i], tasks[c].s).val
                          err == left([tag |-> "Mapped", by |-> m2, err |-> e])
                      IN  (/\ Failing(tasks[c].f.steps[i], tasks[c].s)
                           /\ tasks[c].promises[i].state # "pending")
                          => /\ [mapper |-> m2, e |-> e, task |-> c, step |-> i]
                                   \in mapped
                             /\ tasks[c].promises[i].value = <<err>>
                             /\ tasks[c].state = "fulfilled" =>
                                   Count(tasks[c].value, err) >= 1
                             /\ tasks[p].state = "fulfilled" =>
                                   Count(tasks[p].value, err) >= 1

\* lift(f, ferr).then(lift(chk, gerr)): chk fails and the element is
\* Err(gerr(e)); ferr was not called
C11_Witness ==
    /\ Executed
    /\ Root.f.kind = "chain"
    /\ Root.f.this._mapError = "ferr"
    /\ Root.state = "fulfilled"
    /\ \E c \in Runs(1) :
          /\ Given(1, c) = lift(Fn("chk"), OwnMapper)
          /\ tasks[c].f.steps = <<Fn("chk")>>
          /\ Failing(Fn("chk"), tasks[c].s)
          /\ Count(Root.value, tasks[c].value[1]) >= 1
          /\ tasks[c].value[1].left.by = OwnMapper
    /\ \A x \in mapped : x.mapper # "ferr"

(***************************************************************************)
(* C12.  Building performs no execution: as long as exec has not been      *)
(* called, whatever calls of lift, then and to were made, no step function *)
(* and no error mapper has been invoked; and every invocation there is     *)
(* belongs to a call _f(s) that an exec call started.                      *)
(***************************************************************************)
\* The call of exec that task t is part of (0 if there is none).
RECURSIVE ExecOf(_)
ExecOf(t) ==
    IF t \notin DOMAIN tasks THEN 0
    ELSE IF tasks[t].role = "exec" THEN t
    ELSE ExecOf(tasks[t].parent)

C12_BuildingRunsNothing ==
    /\ tasks = <<>> => calls = <<>> /\ mapped = {}
    /\ \A n \in DOMAIN calls : ExecOf(calls[n].task) # 0
    /\ \A x \in mapped : ExecOf(x.task) # 0

\* lift(..).then(..).to(..) was built, each with arguments, and exec was
\* not called
C12_Witness ==
    /\ flow # NoFlow
    /\ flow._f.kind = "converge"
    /\ flow._f.this._f.kind = "chain"
    /\ flow._f.flows # <<>>
    /\ flow._f.this._f.flows # <<>>
    /\ Len(given) = 2
    /\ tasks = <<>>
    /\ calls = <<>>
    /\ mapped = {}

(***************************************************************************)
(* Calls of exec.  The invocations one call of exec makes, and the ones    *)
(* its flow prescribes: the steps of a lift in order, then for each stage  *)
(* the invocations of its downstream flows.                                *)
(***************************************************************************)
\* The closure f as a flow, for Denote.
AsFlow(f) == [_f |-> f]

RECURSIVE DenoteCalls(_, _)
DenoteCalls(fl, s) ==
    LET f == fl._f
    IN  IF f.kind = "lift"
        THEN [i \in 1..Len(f.steps) |-> [step |-> f.steps[i], s |-> s]]
        ELSE LET vs == Payloads(Denote(f.this, s))
                 M == Len(f.flows)
             IN  IF f.kind = "chain"
                 THEN DenoteCalls(f.this, s) \o
                      Concat([k \in 1..Len(vs) |->
                                 Concat([j \in 1..M |-> DenoteCalls(f.flows[j], vs[k])])])
                 ELSE DenoteCalls(f.this, s) \o
                      Concat([j \in 1..M |-> DenoteCalls(f.flows[j], Arr(vs))])

\* The step invocations that the call of exec which is task r has made.
TreeCalls(r) ==
    LET own == SelectSeq(calls, LAMBDA c : ExecOf(c.task) = r)
    IN  [n \in 1..Len(own) |-> [step |-> own[n].step, s |-> own[n].s]]

\* The call of exec r has invoked all that its flow will ever invoke.
Complete(r) == TreeCalls(r) = DenoteCalls(AsFlow(tasks[r].f), tasks[r].s)

(***************************************************************************)
(* C13.  Every call of exec invokes every step of its pipeline afresh:     *)
(* what a fulfilled call has invoked is all that its flow prescribes, also *)
(* when an earlier call with the same input is fulfilled already, and two  *)
(* fulfilled calls on the same flow with the same input have equal layers. *)
(***************************************************************************)
C13_ExecRunsAfresh ==
    \A r \in ExecCalls :
        /\ IsPrefix(TreeCalls(r), DenoteCalls(AsFlow(tasks[r].f), tasks[r].s))
        /\ tasks[r].state = "fulfilled" => Complete(r)
        /\ \A q \in ExecCalls :
              (/\ tasks[q].f = tasks[r].f
               /\ tasks[q].s = tasks[r].s
               /\ tasks[q].state = "fulfilled"
               /\ tasks[r].state = "fulfilled")
              => /\ tasks[q].value = tasks[r].value
                 /\ TreeCalls(q) = TreeCalls(r)
        /\ tasks[r].state = "fulfilled" =>
              LET same == {q \in ExecCalls : /\ tasks[q].f = tasks[r].f
                                             /\ tasks[q].s = tasks[r].s
                                             /\ tasks[q].state = "fulfilled"}
              IN  Len(calls) >= Cardinality(same) * Len(TreeCalls(r))

\* a two-stage flow called a second time, with the same input, after the
\* first call was fulfilled: every step ran twice
C13_Witness ==
    /\ Cardinality(ExecCalls) = 2
    /\ \E r \in ExecCalls :
          /\ r # 1
          /\ tasks[r].f = Root.f
          /\ tasks[r].s = Root.s
          /\ Root.f.kind # "lift"
          /\ Root.state = "fulfilled"
          /\ tasks[r].state = "fulfilled"
          /\ Len(TreeCalls(1)) >= 2
          /\ \A n \in DOMAIN calls : ExecOf(calls[n].task) = r => n > Len(TreeCalls(1))

(***************************************************************************)
(* C14.  then and to leave the flow they are called on as it was: the flow *)
(* the client kept has the behaviour function and the mapper it had before *)
(* the call, the new flow wraps it, and a call of exec on the kept flow    *)
(* invokes what that flow prescribes, none of the downstream steps, and is *)
(* fulfilled with its layer.                                               *)
(***************************************************************************)
\* The tasks of the call of exec r.
TreeOf(r) == {t \in DOMAIN tasks : ExecOf(t) = r}

KeptRunsAlone ==
    kept # NoFlow =>
        /\ flow._f.this = kept
        /\ \A r \in ExecCalls :
              tasks[r].f = kept._f =>
                  /\ \A t \in TreeOf(r) : tasks[t].f # flow._f
                  /\ IsPrefix(TreeCalls(r), DenoteCalls(kept, tasks[r].s))
                  /\ tasks[r].state # "rejected"
                  /\ tasks[r].state = "fulfilled" =>
                        /\ tasks[r].value = Denote(kept, tasks[r].s)
                        /\ TreeCalls(r) = DenoteCalls(kept, tasks[r].s)

C14_CompositionLeavesFlow ==
    /\ []KeptRunsAlone
    /\ [][(flow # NoFlow /\ flow' # flow) =>
              /\ kept' = flow
              /\ kept'._f = flow._f
              /\ kept'._mapError = flow._mapError]_vars

\* g = f.then(..) with arguments; f and g were both executed with the same
\* input and g invoked more than f
C14_Witness ==
    /\ kept # NoFlow
    /\ flow._f.kind = "chain"
    /\ flow._f.flows # <<>>
    /\ \E r, q \in ExecCalls :
          /\ tasks[r].f = kept._f
          /\ tasks[q].f = flow._f
          /\ tasks[r].s = tasks[q].s
          /\ tasks[r].state = "fulfilled"
          /\ tasks[q].state = "fulfilled"
          /\ Len(TreeCalls(q)) > Len(TreeCalls(r))
          /\ tasks[r].value = Denote(kept, tasks[r].s)

(***************************************************************************)
(* C17.  Calls of exec on one flow that are in flight together do not      *)
(* interfere: in every interleaving of their invocations and settlements   *)
(* each call is fulfilled with the layer its flow gives for its own input, *)
(* after it has itself invoked all that the flow prescribes for that       *)
(* input, and every task it started works on a value of its own call.      *)
(***************************************************************************)
C17_ConcurrentCallsAreIsolated ==
    \A r \in ExecCalls :
        /\ tasks[r].state # "rejected"
        /\ \A t \in TreeOf(r) : \A c \in Runs(t) : c \in TreeOf(r)
        /\ tasks[r].state = "fulfilled" =>
              /\ tasks[r].value = Denote(AsFlow(tasks[r].f), tasks[r].s)
              /\ Complete(r)
              /\ \A t \in TreeOf(r) : tasks[t].state = "fulfilled"

\* two calls on one two-stage flow with different inputs; the first made
\* invocations after the second had started, and their layers differ
C17_Witness ==
    /\ Cardinality(ExecCalls) = 2
    /\ \E r \in ExecCalls :
          /\ r # 1
          /\ tasks[r].f = Root.f
          /\ tasks[r].s # Root.s
          /\ Root.f.kind # "lift"
          /\ Root.state = "fulfilled"
          /\ tasks[r].state = "fulfilled"
          /\ tasks[r].value # Root.value
          /\ \E n1, n2 \in DOMAIN calls :
                /\ ExecOf(calls[n1].task) = 1
                /\ ExecOf(calls[n2].task) = r
                /\ n1 > n2

(***************************************************************************)
(* C15.  At every fan-out all the siblings are started together: in every  *)
(* state, whichever promises are unsettled, every step of a lift that was  *)
(* called has been invoked, and a stage that has its upstream layer has    *)
(* started all its runs (K*M for then, M for to), each with its steps      *)
(* invoked.                                                                *)
(***************************************************************************)
\* The number of runs of stage p.
Expected(p) ==
    IF tasks[p].f.kind = "chain"
    THEN Len(Oks(UpLayer(p))) * Len(tasks[p].f.flows)
    ELSE Len(tasks[p].f.flows)

Unsettled(t) ==
    \E i \in DOMAIN tasks[t].promises : tasks[t].promises[i].state = "pending"

C15_SiblingsStartTogether ==
    /\ \A t \in LiftTasks :
          /\ DOMAIN tasks[t].promises = DOMAIN tasks[t].f.steps
          /\ \A i \in DOMAIN tasks[t].f.steps :
                \E n \in DOMAIN calls :
                    /\ calls[n] = [step |-> tasks[t].f.steps[i], s |-> tasks[t].s,
                                   task |-> t]
                    /\ Len(SelectSeq(SubSeq(calls, 1, n), LAMBDA c : c.task = t)) = i
    /\ \A p \in StageTasks :
          Fed(p) =>
              \A j \in 1..Expected(p) :
                  \E c \in Runs(p) :
                      /\ tasks[c].slot = j
                      /\ Len(CallsOf(c)) = Len(tasks[c].f.steps)

\* a then with four runs of which the first and the third are unsettled
\* and the second and the fourth are fulfilled
C15_Witness ==
    /\ Executed
    /\ Root.f.kind = "chain"
    /\ Fed(1)
    /\ Expected(1) = 4
    /\ \E c1, c2, c3, c4 \in Runs(1) :
          /\ tasks[c1].slot = 1 /\ Unsettled(c1)
          /\ tasks[c2].slot = 2 /\ tasks[c2].state = "fulfilled"
          /\ tasks[c3].slot = 3 /\ Unsettled(c3)
          /\ tasks[c4].slot = 4 /\ tasks[c4].state = "fulfilled"
    /\ Root.state = "pending"

(***************************************************************************)
(* C16.  No early exit: as long as a promise of a step invoked in a call   *)
(* of exec is unsettled, whether or not another invocation has failed, the *)
(* promise of that call is unsettled, and so is the promise of every task  *)
(* that waits for the step; a call with a step that never settles is never *)
(* resolved.                                                               *)
(***************************************************************************)
\* The tasks that wait for task t: its callers up to the call of exec.
RECURSIVE Waiting(_)
Waiting(t) ==
    IF tasks[t].parent = 0 THEN {t} ELSE {t} \cup Waiting(tasks[t].parent)

C16_NoEarlyExit ==
    \A t \in LiftTasks :
        Unsettled(t) => \A w \in Waiting(t) : tasks[w].state = "pending"

\* a stage with two runs: the step of one has failed and the step of the
\* other is unsettled; the call of exec is unsettled
C16_Witness ==
    /\ Executed
    /\ Root.f.kind \in {"chain", "converge"}
    /\ Fed(1)
    /\ \E c, d \in Runs(1) :
          /\ tasks[c].state = "fulfilled"
          /\ Errs(tasks[c].value) # <<>>
          /\ tasks[c].slot < tasks[d].slot
          /\ Unsettled(d)
    /\ Root.state = "pending"

(***************************************************************************)
(* Where the elements of the layer of a then come from.  The Err element   *)
(* at index a of the upstream layer is the output element whose index is   *)
(* its rank among the Err elements; the Ok element of rank k among the Ok  *)
(* elements gives the results of the runs k*M-M+1 .. k*M, which follow the *)
(* Err elements and the results of the runs before them.                   *)
(***************************************************************************)
RunOf(p, j) == CHOOSE c \in Runs(p) : tasks[c].slot = j

RunLayers(p) == [j \in 1..Expected(p) |-> tasks[RunOf(p, j)].value]

Rank(L, a, kind) ==
    Cardinality({i \in 1..a : L[i].tag = kind})

\* The indices of the output elements derived from element a of the
\* upstream layer of the then p.
Derived(p, a) ==
    LET L == UpLayer(p)
        M == Len(tasks[p].f.flows)
    IN  IF isLeft(L[a]) THEN {Rank(L, a, "Left")}
        ELSE LET k == Rank(L, a, "Right")
                 before == Len(Errs(L)) + SumLen(SubSeq(RunLayers(p), 1, (k - 1) * M))
                 width == SumLen(SubSeq(RunLayers(p), (k - 1) * M + 1, k * M))
             IN  (before + 1)..(before + width)

\* The output elements at Derived(p, a) are derived from element a: the
\* Err itself, or the layers of the runs started with the payload of a.
DerivedFrom(p, a) ==
    LET L == UpLayer(p)
        M == Len(tasks[p].f.flows)
        k == Rank(L, a, "Right")
    IN  IF isLeft(L[a]) THEN tasks[p].value[Rank(L, a, "Left")] = L[a]
        ELSE /\ \A j \in ((k - 1) * M + 1)..(k * M) :
                    tasks[RunOf(p, j)].s = L[a].right
             /\ [n \in 1..Cardinality(Derived(p, a)) |->
                     tasks[p].value[n + Len(Errs(L))
                                      + SumLen(SubSeq(RunLayers(p), 1, (k - 1) * M))]]
                  = Concat(SubSeq(RunLayers(p), (k - 1) * M + 1, k * M))

Before(p, a, b) ==
    \A x \in Derived(p, a) : \A y \in Derived(p, b) : x < y

(***************************************************************************)
(* C18 as stated.  If a precedes b in the upstream layer of a then, every  *)
(* output element derived from a precedes every one derived from b.        *)
(***************************************************************************)
C18_ThenPreservesOrder ==
    \A p \in ChainTasks :
        tasks[p].state = "fulfilled" =>
            \A a, b \in DOMAIN UpLayer(p) :
                a < b => Before(p, a, b)

(***************************************************************************)
(* C18 as amended.  then keeps the order of the upstream layer among its   *)
(* Err elements and among its Ok elements: if a precedes b and both are    *)
(* Err or both are Ok, every output element derived from a precedes every  *)
(* one derived from b; and every Err element precedes every element        *)
(* derived from an Ok element, wherever it was in the upstream layer.      *)
(***************************************************************************)
C18_ThenPreservesOrderWithinKinds ==
    \A p \in ChainTasks :
        tasks[p].state = "fulfilled" =>
            LET L == UpLayer(p)
            IN  /\ \A a \in DOMAIN L : DerivedFrom(p, a)
                /\ \A a, b \in DOMAIN L :
                      /\ (a < b /\ L[a].tag = L[b].tag) => Before(p, a, b)
                      /\ (isLeft(L[a]) /\ isRight(L[b])) => Before(p, a, b)

\* lift([fan, chk]).then(d): two Ok elements before an Err; the Err is
\* first in the layer of then, the results of the two payloads follow in
\* order and are not empty
C18_Witness ==
    /\ Executed
    /\ Root.f.kind = "chain"
    /\ Root.state = "fulfilled"
    /\ Len(UpLayer(1)) = 3
    /\ isRight(UpLayer(1)[1])
    /\ isRight(UpLayer(1)[2])
    /\ isLeft(UpLayer(1)[3])
    /\ UpLayer(1)[1] # UpLayer(1)[2]
    /\ Derived(1, 1) # {}
    /\ Derived(1, 2) # {}
    /\ Derived(1, 3) = {1}
    /\ Before(1, 1, 2)
    /\ ~Before(1, 2, 3)

(***************************************************************************)
(* C19.  normalizeResult: an array of n elements gives a layer of n        *)
(* elements in the same order, a Left or Right kept as it is and any other *)
(* element v as Ok(v); a single Left or Right gives the layer of that one  *)
(* element; a bare value v gives [Ok(v)].  The step that returns r, lifted *)
(* with any mapper, is fulfilled with that layer and the mapper is not     *)
(* called: Left(t) gives [Err(t)], N bare values give N Ok elements.       *)
(***************************************************************************)
IsResult(x) == x.tag \in {"Left", "Right"}

Kept(x) == IF IsResult(x) THEN x ELSE [tag |-> "Right", right |-> x]

Normal(r) ==
    IF r.tag = "Array" THEN [k \in 1..Len(r.items) |-> Kept(r.items[k])]
    ELSE <<Kept(r)>>

C19_NormalizeResult ==
    /\ direct.called =>
          /\ direct.layer = Normal(direct.r)
          /\ direct.r.tag = "Array" =>
                /\ Len(direct.layer) = Len(direct.r.items)
                /\ (\A k \in DOMAIN direct.r.items : ~IsResult(direct.r.items[k]))
                      => Oks(direct.layer) = direct.layer
    /\ (Executed /\ Root.f.kind = "lift" /\ Root.f.steps = <<Returning(direct.r)>>) =>
          /\ Root.state = "fulfilled"
          /\ Root.value = Normal(direct.r)
          /\ mapped = {}
          /\ direct.r.tag = "Left" => Root.value = <<direct.r>>

\* r = [1, Left(halted), Right(0)]: normalizeResult gave [Ok(1), Err(halted),
\* Ok(0)], and so did lift(() => r, ferr).exec
C19_Witness ==
    /\ direct.called
    /\ direct.r = Arr(<<Num(1), left(Halted), right(Num(0))>>)
    /\ direct.layer = <<right(Num(1)), left(Halted), right(Num(0))>>
    /\ Executed
    /\ Root.f.mapError = "ferr"
    /\ Root.value = direct.layer

(***************************************************************************)
(* C20.  isFlow is true only of values constructed as Flow.  A step        *)
(* function that carries properties named _f and _mapError, given to then  *)
(* or to, is classified as a step: it is lifted with the mapper of the     *)
(* flow then or to was called on, it is invoked when the stage runs, and   *)
(* exec does not reject on its account.                                    *)
(***************************************************************************)
Lifted(step, m) ==
    [tag |-> "Flow",
     _f |-> [kind |-> "lift", steps |-> <<step>>, mapError |-> m],
     _mapError |-> m]

C20_OnlyFlowsAreFlows ==
    /\ given # <<>> =>
          \A k \in DOMAIN given[Len(given)] :
              given[Len(given)][k].tag = "Function" =>
                  flow._f.flows[k] = Lifted(given[Len(given)][k], kept._mapError)
    /\ \A p \in DOMAIN tasks :
          (/\ tasks[p].f.kind \in {"chain", "converge"}
           /\ tasks[p].awaiting = "all"
           /\ tasks[p].promises # <<>>) =>
              \A k \in DOMAIN given[Depth(tasks[p].f)] :
                  given[Depth(tasks[p].f)][k].tag = "Function" =>
                      \E n \in DOMAIN calls :
                          calls[n].step = given[Depth(tasks[p].f)][k]
    /\ \A t \in DOMAIN tasks : tasks[t].state # "rejected"

(***************************************************************************)
(* C21.  The mapper given to lift is threaded through every level of       *)
(* composition: a step function given to then or to, at whatever level,    *)
(* has its failure e converted with the mapper m of the lift the pipeline  *)
(* starts with, so its element is Err(m(e)); the flow that then or to      *)
(* returns carries the mapper of the flow it was built from.               *)
(***************************************************************************)
RECURSIVE BaseMapper(_)
BaseMapper(f) == IF f.kind = "lift" THEN f.mapError ELSE BaseMapper(f.this._f)

C21_MapperIsThreaded ==
    /\ \A p \in StageTasks : \A c \in Runs(p) :
          (/\ OfPipeline(p)
           /\ Given(p, c).tag = "Function"
           /\ Failing(Given(p, c), tasks[c].s)
           /\ tasks[c].state = "fulfilled")
          => tasks[c].value =
                <<left(Mapped(BaseMapper(tasks[p].f),
                              StepOutcome(Given(p, c), tasks[c].s).val))>>
    /\ flow # NoFlow => flow._mapError = BaseMapper(flow._f)

(***************************************************************************)
(* C23.  then() and to() without arguments are well defined.  The stage    *)
(* invokes nothing downstream; once the upstream layer is there the stage  *)
(* is fulfilled, never rejected, with exactly the Err elements of that     *)
(* layer, in order: every live element is dropped.                         *)
(***************************************************************************)
EmptyStages == {p \in StageTasks : tasks[p].f.flows = <<>>}

C23_NoArguments ==
    \A p \in EmptyStages :
        /\ Runs(p) = {}
        /\ tasks[p].state # "rejected"
        /\ Fed(p) =>
              /\ tasks[p].state = "fulfilled"
              /\ tasks[p].value = SelectSeq(UpLayer(p), LAMBDA x : x.tag = "Left")
              /\ \A k \in DOMAIN tasks[p].value : tasks[p].value[k].tag # "Right"

\* f.then() and f.to() where the layer of f has an Err and a live element:
\* the layer is the Err alone
C23_Witness ==
    /\ Executed
    /\ Root.f.kind = "converge"
    /\ Root.f.flows = <<>>
    /\ tasks[2].f.kind = "chain"
    /\ tasks[2].f.flows = <<>>
    /\ Fed(2)
    /\ Len(UpLayer(2)) >= 2
    /\ \E k \in DOMAIN UpLayer(2) : UpLayer(2)[k].tag = "Right"
    /\ Len(tasks[2].value) = 1
    /\ Root.state = "fulfilled"
    /\ Root.value = tasks[2].value

(***************************************************************************)
(* C25.  Stage barrier.  Within one call of exec no flow or step given to  *)
(* then or to is invoked before the flow the stage was built from has      *)
(* delivered its whole layer: while a step invoked for the upstream flow   *)
(* is unsettled the stage has started no run, also when a sibling of that  *)
(* step has produced a live element already; the invocations made for the  *)
(* upstream flow all precede those of the runs, and a run of to receives   *)
(* all the live values of the layer.                                       *)
(***************************************************************************)
RECURSIVE Ancestors(_)
Ancestors(t) ==
    IF tasks[t].parent = 0 THEN {}
    ELSE {tasks[t].parent} \cup Ancestors(tasks[t].parent)

\* The tasks made for task u: u and the calls it led to.
Under(u) == {t \in DOMAIN tasks : u \in {t} \cup Ancestors(t)}

Downstream(p) == UNION {Under(c) : c \in Runs(p)}

C25_StageBarrier ==
    \A p \in StageTasks :
        /\ Downstream(p) # {} =>
              /\ Fed(p)
              /\ \A t \in Under(Upstream(p)) :
                    /\ tasks[t].state = "fulfilled"
                    /\ \A i \in DOMAIN tasks[t].promises :
                          tasks[t].promises[i].state = "fulfilled"
        /\ \A n, k \in DOMAIN calls :
              (calls[n].task \in Under(Upstream(p)) /\ calls[k].task \in Downstream(p))
              => n < k
        /\ \A c \in Runs(p) :
              tasks[p].f.kind = "converge" =>
                  tasks[c].s.items =
                      [k \in 1..Len(Oks(UpLayer(p))) |-> Oks(UpLayer(p))[k].right]

\* lift([inc, fan]).then(..): inc has given a live element, the promise of
\* fan is unsettled, and the stage has invoked nothing
C25_Witness ==
    /\ Executed
    /\ Root.f.kind \in {"chain", "converge"}
    /\ Root.f.flows # <<>>
    /\ tasks[2].f.kind = "lift"
    /\ Len(tasks[2].promises) = 2
    /\ tasks[2].promises[1].state = "fulfilled"
    /\ tasks[2].promises[1].value[1].tag = "Right"
    /\ tasks[2].promises[2].state = "pending"
    /\ Runs(1) = {}
    /\ \A n \in DOMAIN calls : calls[n].task = 2

(***************************************************************************)
(* C26.  In the layer of a pipeline lift(..) followed by n stages the Err  *)
(* elements are ordered by the stage that created them: the layer is the   *)
(* Errs created by the lift, then the Errs created at stage 1, and so on,  *)
(* then all that the last stage created, so every Err created at stage i   *)
(* precedes every element created at a stage j > i; and a stage's layer    *)
(* has at least as many Errs as the layer it received.                     *)
(***************************************************************************)
\* The tasks of the pipeline itself: the call of exec and the calls of the
\* flows it was built from.
Levels == {t \in DOMAIN tasks : tasks[t].role \in {"exec", "this"}}

\* What the runs of stage p have created, in the order of rightRuns.
Results(p) == Concat([j \in 1..Len(tasks[p].promises) |-> tasks[RunOf(p, j)].value])

\* What is left in the layer of level t of what each level up to t created:
\* all of it for t itself, the Errs for the levels before.
RECURSIVE Created(_)
Created(t) ==
    IF tasks[t].f.kind = "lift" THEN <<tasks[t].value>>
    ELSE LET up == Created(Upstream(t))
         IN  [i \in 1..Len(up) |-> SelectSeq(up[i], LAMBDA x : x.tag = "Left")]
             \o <<Results(t)>>

C26_ErrsOrderedByStage ==
    \A t \in Levels :
        tasks[t].state = "fulfilled" =>
            /\ tasks[t].value = Concat(Created(t))
            /\ \A i \in 1..(Len(Created(t)) - 1) :
                  \A k \in DOMAIN Created(t)[i] : Created(t)[i][k].tag = "Left"
            /\ tasks[t].f.kind # "lift" =>
                  /\ Len(Errs(tasks[t].value)) >= Len(Errs(UpLayer(t)))
                  /\ \A i \in 1..(Len(Created(t)) - 1) :
                        Created(t)[i] = Errs(Created(Upstream(t))[i])

\* three stages after the lift: the lift and the first two stages each
\* created an Err that is in the final layer, in that order, before what the
\* last stage created, an Err and a live element
C26_Witness ==
    /\ Executed
    /\ Root.state = "fulfilled"
    /\ Len(given) = 3
    /\ Len(Created(1)) = 4
    /\ \A i \in 1..3 : Created(1)[i] # <<>>
    /\ Errs(Created(1)[4]) # <<>>
    /\ Oks(Created(1)[4]) # <<>>
    /\ Len(Root.value) > Len(Created(1)[4]) + 2

(***************************************************************************)
(* C24.  Liveness.  With total mappers, if every promise that an invoked   *)
(* step has returned settles in the end, the promise returned by exec is   *)
(* resolved in the end; up to then the steps invoked are among the         *)
(* finitely many that the flow prescribes for the input, and once it is    *)
(* resolved no step is invoked any more.                                   *)
(***************************************************************************)
C24_ExecEventuallyResolves ==
    /\ (Executed ~> (Executed /\ Root.state = "fulfilled"))
    /\ [](Executed => Len(calls) <= Len(DenoteCalls(flow, Root.s)))
    /\ [][(Executed /\ Root.state = "fulfilled") => calls' = calls]_vars

\* a pipeline of two stages whose steps returned promises that settled out
\* of order; the call of exec is resolved
C24_Witness ==
    /\ Executed
    /\ Root.f.kind \in {"chain", "converge"}
    /\ Root.f.flows # <<>>
    /\ Root.f.this._f.kind \in {"chain", "converge"}
    /\ Root.f.this._f.flows # <<>>
    /\ overtaken
    /\ Root.state = "fulfilled"
    /\ Len(calls) >= 3

(***************************************************************************)
(* C22.  When the promise that a downstream flow's exec returned inside    *)
(* then or to is rejected with e, the rejection is caught: that run gives  *)
(* the one-element layer [Err(m(e))], m being the mapper of the flow then  *)
(* or to was called on, and no other mapper is called for it.  The other   *)
(* runs give what they give, and the stage is fulfilled, not rejected,     *)
(* with the Errs it received and the layers of its runs in their order.    *)
(* (A downstream exec that throws instead of returning a promise is not    *)
(* the case of the claim.)                                                 *)
(***************************************************************************)
\* What run c of stage p adds to the layer of p.
Contribution(p, c) ==
    IF tasks[c].state = "rejected"
    THEN <<[tag |-> "Left",
            left |-> Mapped(tasks[p].f.this._mapError, tasks[c].value)]>>
    ELSE tasks[c].value

\* Every call of exec that stage p made returned a promise.
AllReturned(p) ==
    /\ \A c \in Runs(p) : tasks[c].state # "threw"
    /\ \A j \in DOMAIN tasks[p].promises : \E c \in Runs(p) : tasks[c].slot = j

C22_RejectedRunIsCaught ==
    \A p \in StageTasks :
        /\ \A c \in Runs(p) :
              tasks[c].state = "rejected" =>
                  /\ tasks[p].promises[tasks[c].slot] =
                        [state |-> "fulfilled", value |-> Contribution(p, c)]
                  /\ [mapper |-> tasks[p].f.this._mapError, e |-> tasks[c].value,
                      task |-> p, step |-> 0] \in mapped
                  /\ \A x \in mapped :
                        x.task = p => x.mapper = tasks[p].f.this._mapError
        /\ (Fed(p) /\ AllReturned(p)) =>
              /\ tasks[p].state # "rejected"
              /\ tasks[p].state = "fulfilled" =>
                    tasks[p].value =
                        Errs(UpLayer(p)) \o
                        Concat([j \in 1..Len(tasks[p].promises) |->
                                   Contribution(p, RunOf(p, j))])

\* lift(inc, ferr).then(lift(chk, fthrow), inc): the promise of chk is
\* rejected, the mapper of the downstream flow throws and its exec is
\* rejected; the layer is [Err(ferr(e)), Ok(2)]
C22_Witness ==
    /\ Executed
    /\ Root.f.kind = "chain"
    /\ Root.f.this._mapError = "ferr"
    /\ Root.state = "fulfilled"
    /\ Len(Root.value) = 2
    /\ Root.value[1] = left([tag |-> "Mapped", by |-> "ferr", err |-> MapperError])
    /\ Root.value[2].tag = "Right"
    /\ \E c \in Runs(1) :
          /\ tasks[c].state = "rejected"
          /\ tasks[c].f.mapError = ThrowingMapper
          /\ tasks[c].value = MapperError

====
